---- MODULE Spec2Model ----
(***************************************************************************)
(* A model of the recursive-descent parser of src/parser.rs and of the     *)
(* way src/main.rs drives it: one input buffer, one Parser::parse call,    *)
(* then indexed and keyed lookups into the returned tree.                  *)
(*                                                                         *)
(* Characters are one-character strings, a text is a sequence of them.     *)
(* The cursor of Peekable<Chars> is the number of characters consumed by   *)
(* next(); peek() reads the character after it without moving.             *)
(* A value is a pair <<tag, payload>>:                                     *)
(*   <<"Text", chars>>, <<"Number", <<hi, lo>>>>, <<"Bool", <<b>>>>,       *)
(*   <<"List", values>>, <<"Object", fields>>, a field being <<key, value>>*)
(* A u32 is kept as two 16-bit limbs <<hi, lo>> (hi * 65536 + lo), so that *)
(* the whole 32-bit range and its overflow are exact.                      *)
(***************************************************************************)
EXTENDS Integers, Sequences, FiniteSets, TLC

VARIABLES text, cursor, status, json, focus, panic

vars == <<text, cursor, status, json, focus, panic>>

(***************************************************************************)
(* Bounds of the model.                                                    *)
(***************************************************************************)
\* Longest input of the exhaustive family (every string over Alphabet).
MaxLen == 3
\* Most nodes (values) in a document of the exhaustive grammar family.
MaxNodes == 2

(***************************************************************************)
(* Characters.                                                             *)
(***************************************************************************)
Quote == "\""

\* Option<char>::None, as next() and peek() return at the end of the input.
NoChar == "none"

Digits == <<"0", "1", "2", "3", "4", "5", "6", "7", "8", "9">>

UpperCase == <<"A", "B", "C", "D", "E", "F", "G", "H", "I", "J", "K", "L", "M",
               "N", "O", "P", "Q", "R", "S", "T", "U", "V", "W", "X", "Y", "Z">>

LowerCase == <<"a", "b", "c", "d", "e", "f", "g", "h", "i", "j", "k", "l", "m",
               "n", "o", "p", "q", "r", "s", "t", "u", "v", "w", "x", "y", "z">>

\* char::is_whitespace, restricted to the characters a TLA+ string can hold.
is_whitespace(c) == c \in {" ", "\t", "\n", "\r", "\f"}

\* char::is_digit(10): the ASCII decimal digits only.
is_digit(c) == \E i \in 1..10 : Digits[i] = c

\* char::to_digit(10) of a decimal digit.
to_digit(c) == (CHOOSE i \in 1..10 : Digits[i] = c) - 1

\* char::to_ascii_lowercase.
to_ascii_lowercase(c) ==
    IF \E i \in 1..26 : UpperCase[i] = c
    THEN LowerCase[CHOOSE i \in 1..26 : UpperCase[i] = c]
    ELSE c

\* str::to_lowercase, character by character (on the characters modelled it
\* agrees with the ASCII folding).
to_lowercase(s) == [i \in 1..Len(s) |-> to_ascii_lowercase(s[i])]

(***************************************************************************)
(* The cursor: Peekable<Chars>.                                            *)
(***************************************************************************)
\* Peekable::peek: the next character, not consumed.
peek(t, pos) == IF pos < Len(t) THEN t[pos + 1] ELSE NoChar

\* The position after Iterator::next (Chars is fused: it stays at the end).
advance(t, pos) == IF pos < Len(t) THEN pos + 1 ELSE pos

(***************************************************************************)
(* Values and results.                                                     *)
(***************************************************************************)
Text(s) == <<"Text", s>>
Number(n) == <<"Number", n>>
Bool(b) == <<"Bool", <<b>>>>
List(vs) == <<"List", vs>>
Object(fs) == <<"Object", fs>>
ObjectField(k, v) == <<k, v>>

None == <<"None", <<>>>>

\* A function that returned: its value and the cursor it leaves.
Ok(v, pos) == [ok |-> TRUE, val |-> v, pos |-> pos, err |-> None]
\* A function that panicked: the message's kind and arguments.
Panic(e, pos) == [ok |-> FALSE, val |-> None, pos |-> pos, err |-> e]

UnexpectedToken(expected, actual) == <<"UnexpectedToken", <<expected, actual>>>>
EmptyInput == <<"EmptyInput", <<>>>>
InvalidNumber == <<"InvalidNumber", <<>>>>
InvalidBoolean(s) == <<"InvalidBoolean", s>>
KeyNotFound(k) == <<"KeyNotFound", k>>
IndexOutOfRange == <<"IndexOutOfRange", <<>>>>
TypeMismatch == <<"TypeMismatch", <<>>>>
UnwrapNone == <<"UnwrapNone", <<>>>>

(***************************************************************************)
(* u32 arithmetic on 16-bit limbs.                                         *)
(***************************************************************************)
Limb == 65536

\* The same with wrapping_mul and wrapping_add: the result modulo 2^32.
wrapping_mul10_add(n, d) ==
    <<(n[1] * 10 + ((n[2] * 10 + d) \div 65536)) % 65536, (n[2] * 10 + d) % 65536>>

\* u32::checked_mul(10) followed by u32::checked_add(d): the new limbs, or
\* <<>> on overflow.
checked_mul10_add(n, d) ==
    LET lo == n[2] * 10 + d
        hi == n[1] * 10 + (lo \div Limb)
    IN  IF hi >= Limb THEN <<>> ELSE <<hi, lo % Limb>>

\* <u32 as FromStr>::from_str on a string of decimal digits: the empty
\* string and an overflow are errors.
RECURSIVE from_str_digits(_, _, _)
from_str_digits(s, i, acc) ==
    IF i > Len(s) \/ acc = <<>> THEN acc
    ELSE from_str_digits(s, i + 1, checked_mul10_add(acc, to_digit(s[i])))

from_str_u32(s) == IF s = <<>> THEN <<>> ELSE from_str_digits(s, 1, <<0, 0>>)

(***************************************************************************)
(* Token verification and the variant parsers.                             *)
(***************************************************************************)
\* verify_char without the second next(): no whitespace is skipped.
verify_char_no_skip(t, pos, expected) ==
    IF peek(t, pos) # expected
    THEN Panic(UnexpectedToken(expected, peek(t, pos)), advance(t, pos))
    ELSE Ok(None, advance(t, pos))

\* verify_char that lets the end of the input stand for any character.
verify_char_accepts_end(t, pos, expected) ==
    LET first == peek(t, pos)
        p1 == advance(t, pos)
        skip == first # NoChar /\ is_whitespace(first)
        this == IF skip THEN peek(t, p1) ELSE first
        p2 == IF skip THEN advance(t, p1) ELSE p1
    IN  IF this # expected /\ this # NoChar
        THEN Panic(UnexpectedToken(expected, this), p2)
        ELSE Ok(None, p2)

\* verify_char: consume one character, one more if it is whitespace, and
\* panic unless the last one consumed is `expected`.
verify_char(t, pos, expected) ==
    LET first == peek(t, pos)
        p1 == advance(t, pos)
        skip == first # NoChar /\ is_whitespace(first)
        this == IF skip THEN peek(t, p1) ELSE first
        p2 == IF skip THEN advance(t, p1) ELSE p1
    IN  IF this # expected
        THEN Panic(UnexpectedToken(expected, this), p2)
        ELSE Ok(None, p2)

\* take_while(|c| c != '"'): the position of the first '"' after pos, or
\* Len(t) + 1 when there is none.
RECURSIVE find_quote(_, _)
find_quote(t, pos) ==
    IF pos >= Len(t) THEN Len(t) + 1
    ELSE IF t[pos + 1] = Quote THEN pos + 1
    ELSE find_quote(t, pos + 1)

\* take_while that stops in front of the closing '"' instead of consuming it.
take_while_keeps_quote(t, from, q) == Ok(SubSeq(t, from + 1, q - 1), q - 1)

\* text.take_while(..).collect(): the characters from `from` to the '"' at q
\* (q is Len(t) + 1 without one), the '"' consumed with them.
take_while_not_quote(t, from, q) ==
    Ok(SubSeq(t, from + 1, q - 1), IF q > Len(t) THEN Len(t) ELSE q)

\* parse_text once verify_char returned or panicked.
parse_text_body(t, open) ==
    IF ~open.ok THEN open
    ELSE take_while_not_quote(t, open.pos, find_quote(t, open.pos))

\* parse_text: the opening '"', then the characters before the next '"'.
parse_text(t, pos) == parse_text_body(t, verify_char(t, pos, Quote))

\* Self::Text(..) around the text parsed.
wrap_text(r) == IF r.ok THEN Ok(Text(r.val), r.pos) ELSE r

\* ObjectValue::parse_text.
ObjectValue_parse_text(t, pos) == wrap_text(parse_text(t, pos))

\* The loop of parse_number: the position after the run of digits at pos.
RECURSIVE digits_end(_, _)
digits_end(t, pos) ==
    IF is_digit(peek(t, pos)) THEN digits_end(t, pos + 1) ELSE pos

\* number.parse().unwrap_or_default() for number.parse().expect(..).
parse_digits_or_default(parsed, end) ==
    IF parsed = <<>> THEN Ok(Number(<<0, 0>>), end) ELSE Ok(Number(parsed), end)

\* number.parse().expect("must be a number") on the digits collected.
parse_digits(parsed, end) ==
    IF parsed = <<>> THEN Panic(InvalidNumber, end) ELSE Ok(Number(parsed), end)

\* ObjectValue::parse_number.
parse_number(t, pos) ==
    parse_digits(from_str_u32(SubSeq(t, pos + 1, digits_end(t, pos))),
                 digits_end(t, pos))

\* Iterator::take(n): the position after at most n more characters.
take_end(t, pos, n) == IF pos + n <= Len(t) THEN pos + n ELSE Len(t)

\* The match of parse_bool on the case-folded keyword.
match_bool(value, end) ==
    IF value = <<"t", "r", "u", "e">> THEN Ok(Bool(TRUE), end)
    ELSE IF value = <<"f", "a", "l", "s", "e">> THEN Ok(Bool(FALSE), end)
    ELSE Panic(InvalidBoolean(value), end)

\* keyword_length of parse_bool: the characters after the first.
keyword_length(beginning) == IF beginning = "t" THEN 3 ELSE 4

\* parse_bool_rest matching the keyword as consumed, without to_lowercase.
parse_bool_rest_as_written(t, p1, beginning) ==
    IF beginning \notin {"t", "f"}
    THEN Panic(UnexpectedToken("bool", beginning), p1)
    ELSE match_bool(<<beginning>>
                       \o SubSeq(t, p1 + 1, take_end(t, p1, keyword_length(beginning))),
                    take_end(t, p1, keyword_length(beginning)))

\* parse_bool after its first character, case-folded, was consumed.
parse_bool_rest(t, p1, beginning) ==
    IF beginning \notin {"t", "f"}
    THEN Panic(UnexpectedToken("bool", beginning), p1)
    ELSE match_bool(to_lowercase(<<beginning>>
                       \o SubSeq(t, p1 + 1, take_end(t, p1, keyword_length(beginning)))),
                    take_end(t, p1, keyword_length(beginning)))

\* ObjectValue::parse_bool.
parse_bool(t, pos) ==
    IF peek(t, pos) = NoChar THEN Panic(UnwrapNone, pos)
    ELSE parse_bool_rest(t, advance(t, pos), to_ascii_lowercase(peek(t, pos)))

RECURSIVE ObjectValue_parse(_, _)
RECURSIVE parse_list_loop(_, _, _)
RECURSIVE Object_parse_loop(_, _, _)

\* separator that also takes a ',' in front of the first element.
separator_before_first(t, pos, isFirst) ==
    IF isFirst /\ peek(t, pos) # "," THEN Ok(None, pos) ELSE verify_char(t, pos, ",")

\* The ',' the loops of parse_list and Object::parse require before every
\* element but the first.
separator(t, pos, isFirst) ==
    IF isFirst THEN Ok(None, pos) ELSE verify_char(t, pos, ",")

\* push_value with values.insert(0, value) for values.push(value).
push_value_front(t, value, values) ==
    IF ~value.ok THEN value
    ELSE parse_list_loop(t, value.pos, <<value.val>> \o values)

\* values.push(value) and the next turn of the loop; a panic of
\* ObjectValue::parse unwinds.
push_value(t, value, values) ==
    IF ~value.ok THEN value
    ELSE parse_list_loop(t, value.pos, Append(values, value.val))

\* One turn of the loop of parse_list after its separator.
parse_list_element(t, sep, values) ==
    IF ~sep.ok THEN sep ELSE push_value(t, ObjectValue_parse(t, sep.pos), values)

\* The end of parse_list: the closing ']' and the List.
close_list(close, values) ==
    IF ~close.ok THEN close ELSE Ok(List(values), close.pos)

\* The while loop of parse_list and the closing ']' after it.
parse_list_loop(t, pos, values) ==
    IF peek(t, pos) # NoChar /\ peek(t, pos) # "]"
    THEN parse_list_element(t, separator(t, pos, values = <<>>), values)
    ELSE close_list(verify_char(t, pos, "]"), values)

\* parse_list once verify_char returned or panicked on the '['.
parse_list_body(t, open) ==
    IF ~open.ok THEN open ELSE parse_list_loop(t, open.pos, <<>>)

\* ObjectValue::parse_list.
parse_list(t, pos) == parse_list_body(t, verify_char(t, pos, "["))

\* Self{key, value}; a panic of ObjectValue::parse unwinds.
make_field(key, value) ==
    IF ~value.ok THEN value ELSE Ok(ObjectField(key, value.val), value.pos)

\* ObjectField::parse after the ':'.
field_value(t, key, colon) ==
    IF ~colon.ok THEN colon ELSE make_field(key, ObjectValue_parse(t, colon.pos))

\* ObjectField::parse after the key.
field_colon(t, key) ==
    IF ~key.ok THEN key ELSE field_value(t, key.val, verify_char(t, key.pos, ":"))

\* ObjectField::parse.
ObjectField_parse(t, pos) == field_colon(t, parse_text(t, pos))

\* fields.push(field) and the next turn of the loop.
push_field(t, field, fields) ==
    IF ~field.ok THEN field
    ELSE Object_parse_loop(t, field.pos, Append(fields, field.val))

\* One turn of the loop of Object::parse after its separator.
parse_object_field(t, sep, fields) ==
    IF ~sep.ok THEN sep ELSE push_field(t, ObjectField_parse(t, sep.pos), fields)

\* The end of Object::parse: the closing '}' and the fields.
close_object(close, fields) ==
    IF ~close.ok THEN close ELSE Ok(fields, close.pos)

\* The while loop of Object::parse and the closing '}' after it.
Object_parse_loop(t, pos, fields) ==
    IF peek(t, pos) # NoChar /\ peek(t, pos) # "}"
    THEN parse_object_field(t, separator(t, pos, fields = <<>>), fields)
    ELSE close_object(verify_char(t, pos, "}"), fields)

\* Object::parse once verify_char returned or panicked on the '{'.
Object_parse_body(t, open) ==
    IF ~open.ok THEN open ELSE Object_parse_loop(t, open.pos, <<>>)

\* Object::parse.
Object_parse(t, pos) == Object_parse_body(t, verify_char(t, pos, "{"))

\* Self::Object(Box::new(..)) around the object parsed.
wrap_object(r) == IF r.ok THEN Ok(Object(r.val), r.pos) ELSE r

\* ObjectValue::parse_object.
parse_object(t, pos) == wrap_object(Object_parse(t, pos))

\* The match of ObjectValue::parse on the case-folded lookahead character.
dispatch(t, pos, c) ==
    CASE c = Quote -> ObjectValue_parse_text(t, pos)
      [] c = "[" -> parse_list(t, pos)
      [] c = "{" -> parse_object(t, pos)
      [] c \in {"f", "t"} -> parse_bool(t, pos)
      [] is_digit(c) -> parse_number(t, pos)
      [] OTHER -> Panic(UnexpectedToken("value", peek(t, pos)), pos)

\* ObjectValue::parse: dispatch on the lookahead character.
ObjectValue_parse(t, pos) ==
    IF peek(t, pos) = NoChar THEN Panic(EmptyInput, pos)
    ELSE dispatch(t, pos, to_ascii_lowercase(peek(t, pos)))

\* A check that the root value ends the input.
require_end(t, r) ==
    IF ~r.ok \/ r.pos = Len(t) THEN r
    ELSE Panic(UnexpectedToken(NoChar, peek(t, r.pos)), r.pos)

\* Parser::parse that panics unless the root value ends the input.
Parser_parse_to_end(t) == require_end(t, ObjectValue_parse(t, 0))

\* Parser::parse on the cursor Parser::new builds (nothing consumed).
Parser_parse(t) == ObjectValue_parse(t, 0)

(***************************************************************************)
(* The accessor layer and the two Index implementations.                   *)
(***************************************************************************)
\* ObjectValue::get_list: Some(elements) for a List, None otherwise.
get_list(v) == IF v[1] = "List" THEN v[2] ELSE None

\* ObjectValue::get_object: Some(object) for an Object, None otherwise.
get_object(v) == IF v[1] = "Object" THEN v[2] ELSE None

\* impl Index<usize> for ObjectValue (ids count from 0).
ObjectValue_index(v, id) ==
    IF v[1] # "List" THEN Panic(TypeMismatch, 0)
    ELSE IF id >= Len(v[2]) THEN Panic(IndexOutOfRange, 0)
    ELSE Ok(v[2][id + 1], 0)

\* find_map over the fields from position i on: the value of the first
\* field whose key is id.
RECURSIVE find_map(_, _, _)

\* find_map that keeps looking: the value of the last field whose key is id.
find_map_last(fields, i, id) ==
    IF i > Len(fields) THEN None
    ELSE IF find_map(fields, i + 1, id) # None THEN find_map(fields, i + 1, id)
    ELSE IF fields[i][1] = id THEN fields[i][2]
    ELSE None

find_map(fields, i, id) ==
    IF i > Len(fields) THEN None
    ELSE IF fields[i][1] = id THEN fields[i][2]
    ELSE find_map(fields, i + 1, id)

\* impl Index<&str> for Object.
Object_index(fields, id) ==
    IF find_map(fields, 1, id) = None THEN Panic(KeyNotFound(id), 0)
    ELSE Ok(find_map(fields, 1, id), 0)

(***************************************************************************)
(* The documents of the grammar (spec section 6) and their texts: the      *)
(* reference the parser is compared with.                                  *)
(***************************************************************************)
\* n / 10 and n % 10 of a u32 in limbs.
DivMod10(n) ==
    LET r == (n[1] % 10) * Limb + n[2]
    IN  [q |-> <<n[1] \div 10, r \div 10>>, r |-> r % 10]

\* The decimal digits of a u32, without leading zeros.
RECURSIVE ToDecimal(_)
ToDecimal(n) ==
    LET d == DivMod10(n)
    IN  IF d.q = <<0, 0>> THEN <<Digits[d.r + 1]>>
        ELSE ToDecimal(d.q) \o <<Digits[d.r + 1]>>

RECURSIVE Render(_)
RECURSIVE RenderSeq(_, _, _)

\* The elements (fields when isObject) from position i on, ','-separated.
RenderSeq(items, i, isObject) ==
    IF i > Len(items) THEN <<>>
    ELSE (IF i > 1 THEN <<",">> ELSE <<>>)
         \o (IF isObject
             THEN <<Quote>> \o items[i][1] \o <<Quote, ":">> \o Render(items[i][2])
             ELSE Render(items[i]))
         \o RenderSeq(items, i + 1, isObject)

\* The canonical text of a value: no whitespace, lower-case booleans, no
\* leading zeros.
Render(v) ==
    CASE v[1] = "Text" -> <<Quote>> \o v[2] \o <<Quote>>
      [] v[1] = "Number" -> ToDecimal(v[2])
      [] v[1] = "Bool" -> IF v[2][1] THEN <<"t", "r", "u", "e">>
                          ELSE <<"f", "a", "l", "s", "e">>
      [] v[1] = "List" -> <<"[">> \o RenderSeq(v[2], 1, FALSE) \o <<"]">>
      [] v[1] = "Object" -> <<"{">> \o RenderSeq(v[2], 1, TRUE) \o <<"}">>

\* The keys main looks up (src/main.rs:37-38).
Vaddr == <<"v", "a", "d", "d", "r">>
Name == <<"n", "a", "m", "e">>

Keys == {<<"a">>, <<"b">>, Vaddr, Name}

\* The keys of the generated documents.
FieldKeys == {<<"a">>, <<"b">>}

Leaves == {Text(<<"a">>), Number(<<0, 1>>), Number(<<0, 2>>), Bool(TRUE)}

RECURSIVE Documents(_)
RECURSIVE ValueSeqs(_)
RECURSIVE FieldSeqs(_)

\* The sequences of documents with n nodes in all.
ValueSeqs(n) ==
    IF n = 0 THEN {<<>>}
    ELSE UNION {{<<v>> \o rest : v \in Documents(k), rest \in ValueSeqs(n - k)} :
                k \in 1..n}

\* The sequences of fields whose values have n nodes in all.
FieldSeqs(n) ==
    IF n = 0 THEN {<<>>}
    ELSE UNION {{<<ObjectField(key, v)>> \o rest :
                 key \in FieldKeys, v \in Documents(k), rest \in FieldSeqs(n - k)} :
                k \in 1..n}

\* The documents with exactly n nodes.
Documents(n) ==
    (IF n = 1 THEN Leaves ELSE {})
    \cup {List(s) : s \in ValueSeqs(n - 1)}
    \cup {Object(s) : s \in FieldSeqs(n - 1)}

\* Larger documents: the examples of spec section 8 and some nestings.
Examples ==
    {List(<<Number(<<0, 1>>), Number(<<0, 2>>)>>),
     Object(<<ObjectField(<<"a">>, Number(<<0, 1>>)),
              ObjectField(<<"a">>, Number(<<0, 2>>))>>),
     Object(<<ObjectField(<<"b">>, Number(<<0, 1>>)),
              ObjectField(<<"a">>, Number(<<0, 2>>))>>),
     List(<<List(<<Number(<<0, 1>>)>>), Object(<<ObjectField(<<"a">>, Bool(TRUE))>>)>>),
     Object(<<ObjectField(<<"a">>, List(<<Number(<<0, 1>>), Text(<<"a">>)>>)),
              ObjectField(<<"b">>, Object(<<>>))>>),
     List(<<Object(<<ObjectField(Vaddr, Number(<<0, 4096>>)),
                     ObjectField(Name, Text(<<"f", "o", "o">>))>>)>>)}

AllDocuments == UNION {Documents(n) : n \in 1..MaxNodes} \cup Examples

GrammarTexts == {Render(v) : v \in AllDocuments}

(***************************************************************************)
(* The inputs.                                                             *)
(***************************************************************************)
Alphabet == {Quote, "[", "]", "{", "}", ":", ",", " ", "1", "a", "t"}

RECURSIVE Strings(_)
\* Every string over Alphabet of length n.
Strings(n) ==
    IF n = 0 THEN {<<>>}
    ELSE {Append(s, c) : s \in Strings(n - 1), c \in Alphabet}

ShortStrings == UNION {Strings(n) : n \in 0..MaxLen}

InsertAt(s, p, c) == SubSeq(s, 1, p) \o <<c>> \o SubSeq(s, p + 1, Len(s))
DeleteAt(s, p) == SubSeq(s, 1, p - 1) \o SubSeq(s, p + 1, Len(s))

\* A text of the grammar and what one edit makes of it: a whitespace or a
\* comma inserted, a character deleted, the end cut off, a character added.
Variants(s) ==
    {s}
    \cup {InsertAt(s, p, c) : p \in 0..Len(s), c \in {" ", ","}}
    \cup {DeleteAt(s, p) : p \in 1..Len(s)}
    \cup {SubSeq(s, 1, p) : p \in 0..Len(s)}
    \cup {Append(s, c) : c \in Alphabet}

GrammarInputs == UNION {Variants(s) : s \in GrammarTexts}

\* Every upper/lower-case spelling of a word.
RECURSIVE Spellings(_)
Spellings(w) ==
    IF w = <<>> THEN {<<>>}
    ELSE LET c == w[Len(w)]
             up == UpperCase[CHOOSE i \in 1..26 : LowerCase[i] = c]
         IN  {Append(s, x) : s \in Spellings(SubSeq(w, 1, Len(w) - 1)), x \in {c, up}}

BoolWords == {<<"t", "r", "u", "e">>, <<"f", "a", "l", "s", "e">>,
              <<"t", "r", "u", "t", "h">>, <<"t", "r", "u">>,
              <<"f", "a", "l", "s">>, <<"f", "a", "l", "s", "e", "y">>,
              <<"t", "r", "e", "e">>, <<"f", "a", "l", "s", "o">>}

BoolInputs == UNION {Spellings(w) : w \in BoolWords}

\* Digit runs around the ends of the u32 range.
NumberStems == {<<>>, <<"0">>, <<"0", "0">>, <<"4", "0">>,
                <<"4", "2", "9", "4", "9", "6", "7", "2">>,
                <<"4", "2", "9", "4", "9", "6", "7", "1">>,
                <<"4", "2", "9", "4", "9", "6", "7", "3">>,
                <<"0", "4", "2", "9", "4", "9", "6", "7", "2">>,
                <<"4", "2", "9", "4", "9", "6", "7", "2", "9">>,
                <<"9", "9", "9", "9", "9", "9", "9", "9", "9">>}

NumberInputs ==
    {stem \o <<Digits[i], Digits[j]>> : stem \in NumberStems, i \in 1..10, j \in 1..10}

\* A literal alone, inside a list, and followed by another character.
Wrapped(s) == {s, <<"[">> \o s \o <<"]">>, s \o <<"x">>, s \o <<",">>}

LiteralInputs == UNION {Wrapped(s) : s \in BoolInputs \cup NumberInputs}

Inputs == ShortStrings \cup GrammarInputs \cup LiteralInputs

(***************************************************************************)
(* The program: src/main.rs reads the input, parses it once and looks into *)
(* the tree.                                                               *)
(***************************************************************************)
\* Parser::new over the input: nothing consumed, nothing parsed.
Init ==
    /\ text \in Inputs
    /\ cursor = 0
    /\ status = "new"
    /\ json = None
    /\ focus = None
    /\ panic = None

\* parser.parse(): the root value, or the panic that ends the process.
Parse ==
    /\ status = "new"
    /\ \E r \in {Parser_parse(text)} :
          /\ cursor' = r.pos
          /\ status' = IF r.ok THEN "parsed" ELSE "panicked"
          /\ json' = r.val
          /\ focus' = r.val
          /\ panic' = r.err
    /\ UNCHANGED text

\* value[id] on the value the caller holds.
IndexUsize(id) ==
    /\ status = "parsed"
    /\ \E r \in {ObjectValue_index(focus, id)} :
          /\ status' = IF r.ok THEN "parsed" ELSE "panicked"
          /\ focus' = r.val
          /\ panic' = r.err
    /\ UNCHANGED <<text, cursor, json>>

\* value.get_object().unwrap()[key] on the value the caller holds.
IndexStr(key) ==
    /\ status = "parsed"
    /\ \E r \in {IF get_object(focus) = None THEN Panic(UnwrapNone, 0)
                 ELSE Object_index(get_object(focus), key)} :
          /\ status' = IF r.ok THEN "parsed" ELSE "panicked"
          /\ focus' = r.val
          /\ panic' = r.err
    /\ UNCHANGED <<text, cursor, json>>

Next ==
    \/ Parse
    \/ \E id \in 0..MaxNodes : IndexUsize(id)
    \/ \E key \in Keys : IndexStr(key)

Spec == Init /\ [][Next]_vars

(***************************************************************************)
(* The grammar of spec section 6, read strictly (no whitespace), as a      *)
(* recogniser that shares nothing with the parser above.                   *)
(***************************************************************************)
Fail == 0 - 1

CharAt(s, i) == IF i >= 1 /\ i <= Len(s) THEN s[i] ELSE NoChar

IsDigit(c) == c \in {"0", "1", "2", "3", "4", "5", "6", "7", "8", "9"}

IsSpace(c) == c \in {" ", "\t", "\n", "\r", "\f"}

Fold(c) ==
    IF \E i \in 1..26 : UpperCase[i] = c
    THEN LowerCase[CHOOSE i \in 1..26 : UpperCase[i] = c]
    ELSE c

FoldAll(s) == [i \in 1..Len(s) |-> Fold(s[i])]

TrueWord == <<"t", "r", "u", "e">>
FalseWord == <<"f", "a", "l", "s", "e">>

\* The first '"' after position i, or 0.
NextQuote(s, i) ==
    IF \E j \in (i + 1)..Len(s) : s[j] = Quote
    THEN CHOOSE j \in (i + 1)..Len(s) :
            s[j] = Quote /\ \A k \in (i + 1)..(j - 1) : s[k] # Quote
    ELSE 0

\* The end of the longest run of digits that starts after position i.
RunEnd(s, i) ==
    CHOOSE e \in i..Len(s) :
        /\ \A k \in (i + 1)..e : IsDigit(s[k])
        /\ ~IsDigit(CharAt(s, e + 1))

\* A run of digits without its leading zeros (one digit at least is kept).
RECURSIVE StripZeros(_)
StripZeros(d) ==
    IF Len(d) > 1 /\ d[1] = "0" THEN StripZeros(Tail(d)) ELSE d

U32Max == <<"4", "2", "9", "4", "9", "6", "7", "2", "9", "5">>

DigitOrder(c) == CHOOSE i \in 0..9 : Digits[i + 1] = c

\* a <= b for two digit strings of the same length.
RECURSIVE LexLeq(_, _)
LexLeq(a, b) ==
    IF a = <<>> THEN TRUE
    ELSE IF a[1] # b[1] THEN DigitOrder(a[1]) < DigitOrder(b[1])
    ELSE LexLeq(Tail(a), Tail(b))

\* The value of a run of digits lies in [0, 2^32 - 1].
InRange(d) ==
    LET z == StripZeros(d)
    IN  Len(z) < Len(U32Max) \/ (Len(z) = Len(U32Max) /\ LexLeq(z, U32Max))

RECURSIVE G_value(_, _)
RECURSIVE G_items(_, _, _, _)

\* text := '"' char-not-quote* '"'
G_text(s, i) ==
    IF CharAt(s, i + 1) = Quote /\ NextQuote(s, i + 1) # 0
    THEN NextQuote(s, i + 1) ELSE Fail

\* number := digit+, in the unsigned 32-bit range
G_number(s, i) ==
    LET e == RunEnd(s, i)
    IN  IF e > i /\ InRange(SubSeq(s, i + 1, e)) THEN e ELSE Fail

\* boolean := "true" | "false", case-insensitive
G_boolean(s, i) ==
    IF i + 4 <= Len(s) /\ FoldAll(SubSeq(s, i + 1, i + 4)) = TrueWord THEN i + 4
    ELSE IF i + 5 <= Len(s) /\ FoldAll(SubSeq(s, i + 1, i + 5)) = FalseWord THEN i + 5
    ELSE Fail

\* field := text ':' value
G_field(s, i) ==
    LET k == G_text(s, i)
    IN  IF k # Fail /\ CharAt(s, k + 1) = ":" THEN G_value(s, k + 1) ELSE Fail

\* (item (',' item)*) closer, an item being a field or a value.
G_items(s, i, closer, isObject) ==
    LET e == IF isObject THEN G_field(s, i) ELSE G_value(s, i)
    IN  IF e = Fail THEN Fail
        ELSE IF CharAt(s, e + 1) = closer THEN e + 1
        ELSE IF CharAt(s, e + 1) = "," THEN G_items(s, e + 1, closer, isObject)
        ELSE Fail

\* list := '[' (value (',' value)*)? ']'
G_list(s, i) ==
    IF CharAt(s, i + 2) = "]" THEN i + 2 ELSE G_items(s, i + 1, "]", FALSE)

\* object := '{' (field (',' field)*)? '}'
G_object(s, i) ==
    IF CharAt(s, i + 2) = "}" THEN i + 2 ELSE G_items(s, i + 1, "}", TRUE)

\* value := text | number | boolean | list | object: where the value that
\* starts after position i ends, or Fail.
G_value(s, i) ==
    LET c == CharAt(s, i + 1)
    IN  CASE c = Quote -> G_text(s, i)
          [] IsDigit(c) -> G_number(s, i)
          [] Fold(c) \in {"t", "f"} -> G_boolean(s, i)
          [] c = "[" -> G_list(s, i)
          [] c = "{" -> G_object(s, i)
          [] OTHER -> Fail

\* The whole of s is one value of the grammar.
WellFormed(s) == G_value(s, 0) = Len(s)

\* Position i of s lies inside a quoted text (after its opening '"').
InQuote(s, i) == Cardinality({j \in 1..(i - 1) : s[j] = Quote}) % 2 = 1

\* A character of s outside every quoted text (the quotes themselves are not
\* outside).
Outside(s, i) == s[i] # Quote /\ ~InQuote(s, i)

\* s[i] is a zero that leads a run of digits outside the quoted texts.
RECURSIVE LeadingZero(_, _)
LeadingZero(s, i) ==
    /\ s[i] = "0"
    /\ IsDigit(CharAt(s, i + 1))
    /\ (~IsDigit(CharAt(s, i - 1)) \/ LeadingZero(s, i - 1))

\* The canonical spelling of a text: outside the quoted texts, no
\* whitespace, lower-case letters, no leading zeros.
RECURSIVE NormFrom(_, _)
NormFrom(s, i) ==
    IF i > Len(s) THEN <<>>
    ELSE (IF ~Outside(s, i) THEN <<s[i]>>
          ELSE IF IsSpace(s[i]) \/ LeadingZero(s, i) THEN <<>>
          ELSE <<Fold(s[i])>>) \o NormFrom(s, i + 1)

Norm(s) == NormFrom(s, 1)

\* The same without the whitespace only.
StripSpace(s) == SelectSeq([i \in 1..Len(s) |-> IF Outside(s, i) /\ IsSpace(s[i]) THEN "" ELSE s[i]],
                           LAMBDA c : c # "")

(***************************************************************************)
(* What Parser::parse did with the input.                                  *)
(***************************************************************************)
\* parse returned a value (later lookups may still panic).
Returned == status # "new" /\ json # None

\* parse panicked.
Aborted == status = "panicked" /\ json = None

\* The characters parse consumed.
Consumed == SubSeq(text, 1, cursor)

(***************************************************************************)
(* C1.  Every input that matches the grammar (no whitespace) is parsed     *)
(* whole, and the tree returned is the one the input spells: rendered      *)
(* back, with its elements and fields in their order, it is the input's    *)
(* canonical spelling.  "[]" and "{}" give the empty List and Object.      *)
(***************************************************************************)
C1_GrammarInputsParse ==
    (status # "new" /\ WellFormed(text)) =>
        /\ Returned
        /\ cursor = Len(text)
        /\ Render(json) = Norm(text)
        /\ (text = <<"[", "]">> => json = List(<<>>))
        /\ (text = <<"{", "}">> => json = Object(<<>>))

C1_Witness ==
    /\ Returned
    /\ WellFormed(text)
    /\ json[1] = "List"
    /\ Len(json[2]) = 2
    /\ json[2][1] # json[2][2]

(***************************************************************************)
(* C4.  A number is exact or fatal: the run of digits at the start of the  *)
(* input (or right after a '[') gives a Number whose decimal digits are    *)
(* the run's when the run's value is at most 2^32 - 1, and an              *)
(* InvalidNumber panic when it is more; never a wrapped or cut value.      *)
(***************************************************************************)
IsU32(n) == n[1] \in 0..65535 /\ n[2] \in 0..65535

C4_NumberAt(i) ==
    LET e == RunEnd(text, i)
        run == SubSeq(text, i + 1, e)
    IN  IF ~InRange(run) THEN Aborted /\ panic = InvalidNumber /\ cursor = e
        ELSE IF i = 0
        THEN /\ Returned
             /\ json[1] = "Number"
             /\ IsU32(json[2])
             /\ ToDecimal(json[2]) = StripZeros(run)
             /\ cursor = e
        ELSE (Returned /\ Len(get_list(json)) >= 1) =>
                 /\ json[2][1][1] = "Number"
                 /\ IsU32(json[2][1][2])
                 /\ ToDecimal(json[2][1][2]) = StripZeros(run)

C4_NumberExactOrFatal ==
    /\ (status # "new" /\ IsDigit(CharAt(text, 1))) => C4_NumberAt(0)
    /\ (status # "new" /\ CharAt(text, 1) = "[" /\ IsDigit(CharAt(text, 2))) =>
           C4_NumberAt(1)

C4_Witness ==
    /\ text = <<"4", "2", "9", "4", "9", "6", "7", "2", "9", "6">>
    /\ Aborted
    /\ panic = InvalidNumber

(***************************************************************************)
(* C5.  Booleans are case-insensitive: an input that starts with t or f,   *)
(* in either case, has 4 or 5 characters consumed (fewer only when the     *)
(* input ends), gives Bool(true) exactly when they fold to "true",         *)
(* Bool(false) exactly when they fold to "false", and an InvalidBoolean    *)
(* panic otherwise.                                                        *)
(***************************************************************************)
C5_Taken ==
    LET k == IF Fold(text[1]) = "t" THEN 4 ELSE 5
    IN  IF k <= Len(text) THEN k ELSE Len(text)

C5_BooleanCaseInsensitive ==
    (status # "new" /\ Fold(CharAt(text, 1)) \in {"t", "f"}) =>
        LET word == FoldAll(SubSeq(text, 1, C5_Taken))
        IN  /\ cursor = C5_Taken
            /\ (word = TrueWord) = (Returned /\ json = Bool(TRUE))
            /\ (word = FalseWord) = (Returned /\ json = Bool(FALSE))
            /\ (word \notin {TrueWord, FalseWord}) =>
                   (Aborted /\ panic = InvalidBoolean(word))

C5_Witness ==
    /\ text = <<"T", "r", "U", "t", "h">>
    /\ Aborted
    /\ panic = InvalidBoolean(<<"t", "r", "u", "t">>)
    /\ cursor = 4

(***************************************************************************)
(* C9.  A text is the characters between its opening '"' and the next      *)
(* '"', which is consumed too; without a closing '"' it is all the rest of *)
(* the input, the cursor ends at the end of the input and nothing panics.  *)
(* No Text and no key of a parsed tree holds a '"'.                        *)
(***************************************************************************)
RECURSIVE NoQuoteIn(_)
NoQuoteIn(v) ==
    CASE v[1] = "Text" -> \A i \in 1..Len(v[2]) : v[2][i] # Quote
      [] v[1] = "List" -> \A i \in 1..Len(v[2]) : NoQuoteIn(v[2][i])
      [] v[1] = "Object" ->
            \A i \in 1..Len(v[2]) :
               /\ \A j \in 1..Len(v[2][i][1]) : v[2][i][1][j] # Quote
               /\ NoQuoteIn(v[2][i][2])
      [] OTHER -> TRUE

C9_TextUpToNextQuote ==
    /\ (status # "new" /\ CharAt(text, 1) = Quote) =>
          LET q == NextQuote(text, 1)
          IN  /\ Returned
              /\ q # 0 => (json = Text(SubSeq(text, 2, q - 1)) /\ cursor = q)
              /\ q = 0 => (json = Text(SubSeq(text, 2, Len(text)))
                           /\ cursor = Len(text))
    /\ Returned => NoQuoteIn(json)

C9_Witness ==
    /\ Returned
    /\ CharAt(text, 1) = Quote
    /\ NextQuote(text, 1) = 0
    /\ json = Text(<<"a", "t">>)
    /\ cursor = 3

(***************************************************************************)
(* Where a position of a text lies.                                        *)
(***************************************************************************)
\* The containers opened and not closed by the first n characters of s
\* (the innermost last).
RECURSIVE OpenStack(_, _)
OpenStack(s, n) ==
    IF n = 0 THEN <<>>
    ELSE LET st == OpenStack(s, n - 1)
         IN  IF ~Outside(s, n) THEN st
             ELSE IF s[n] \in {"[", "{"} THEN Append(st, s[n])
             ELSE IF s[n] \in {"]", "}"} /\ st # <<>> THEN SubSeq(st, 1, Len(st) - 1)
             ELSE st

Closer(opener) == IF opener = "[" THEN "]" ELSE "}"

\* The closing delimiters a stack of open containers still needs.
RECURSIVE Closers(_)
Closers(st) ==
    IF st = <<>> THEN <<>>
    ELSE <<Closer(st[Len(st)])>> \o Closers(SubSeq(st, 1, Len(st) - 1))

\* The whitespace characters of s outside its quoted texts.
Spaces(s) == {i \in 1..Len(s) : Outside(s, i) /\ IsSpace(s[i])}

\* The nearest character before (after) position i that is not whitespace
\* outside the quoted texts.
RECURSIVE Before(_, _)
Before(s, i) ==
    IF i <= 1 THEN NoChar
    ELSE IF (i - 1) \in Spaces(s) THEN Before(s, i - 1)
    ELSE s[i - 1]

RECURSIVE After(_, _)
After(s, i) ==
    IF i >= Len(s) THEN NoChar
    ELSE IF (i + 1) \in Spaces(s) THEN After(s, i + 1)
    ELSE s[i + 1]

(***************************************************************************)
(* C2 as stated.  One whitespace character inserted immediately before any *)
(* delimiter of a well-formed input ('{', '}', '[', ']', ':', ',' or an    *)
(* opening '"') still parses, to the same tree.                            *)
(***************************************************************************)
\* The input is a well-formed text with one whitespace character inserted
\* at position p, outside the quoted texts.
C2_Inserted(p) ==
    /\ status # "new"
    /\ Spaces(text) = {p}
    /\ WellFormed(DeleteAt(text, p))

\* The '"' after position p opens the key of a field.
C2_KeyQuote(p) ==
    /\ CharAt(text, p + 1) = Quote
    /\ OpenStack(text, p) # <<>>
    /\ OpenStack(text, p)[Len(OpenStack(text, p))] = "{"
    /\ CharAt(text, p - 1) \in {"{", ","}

C2_Tolerated(p) == CharAt(text, p + 1) \in {",", ":"} \/ C2_KeyQuote(p)

C2_Fatal(p) ==
    \/ CharAt(text, p + 1) \in {"[", "{", "]", "}"}
    \/ (CharAt(text, p + 1) = Quote /\ ~C2_KeyQuote(p))

C2_SameTree(p) ==
    /\ Returned
    /\ cursor = Len(text)
    /\ Render(json) = Norm(DeleteAt(text, p))

C2_WhitespaceBeforeEveryDelimiter ==
    \A p \in 1..Len(text) :
        (C2_Inserted(p) /\ (C2_Tolerated(p) \/ C2_Fatal(p))) => C2_SameTree(p)

(***************************************************************************)
(* C2 amended.  One whitespace character inserted immediately before a     *)
(* ',', a ':' or the opening '"' of a field key of a well-formed input     *)
(* still parses, to the same tree; inserted immediately before '{', '[',   *)
(* '}', ']' or the opening '"' of a text value it makes the parse abort.   *)
(***************************************************************************)
C2_WhitespaceBeforeSeparators ==
    \A p \in 1..Len(text) :
        C2_Inserted(p) =>
            /\ C2_Tolerated(p) => C2_SameTree(p)
            /\ C2_Fatal(p) => Aborted

C2_Witness ==
    /\ text = <<"{", " ", Quote, "a", Quote, ":", "1", "}">>
    /\ C2_Inserted(2)
    /\ C2_Tolerated(2)
    /\ Returned
    /\ json = Object(<<ObjectField(<<"a">>, Number(<<0, 1>>))>>)

(***************************************************************************)
(* C3 as stated.  For an input that is not a well-formed value of the      *)
(* grammar (whitespace left aside) the parse aborts and returns no value.  *)
(***************************************************************************)
C3_MalformedInputIsFatal ==
    (status # "new" /\ ~WellFormed(StripSpace(text))) => Aborted

(***************************************************************************)
(* C3 amended.  The parser returns no partial tree: when parse returns,    *)
(* the characters it consumed are, whitespace left aside, one well-formed  *)
(* value and the tree returned is the tree of that value, or the input is  *)
(* one unterminated text returned whole.  (What follows the root value is  *)
(* not looked at, and an unterminated text is no error.)                   *)
(***************************************************************************)
C3_UnterminatedText ==
    /\ CharAt(text, 1) = Quote
    /\ NextQuote(text, 1) = 0
    /\ cursor = Len(text)
    /\ json = Text(SubSeq(text, 2, Len(text)))

C3_NoPartialTree ==
    Returned =>
        \/ /\ WellFormed(StripSpace(Consumed))
           /\ Render(json) = Norm(Consumed)
        \/ C3_UnterminatedText

C3_Witness ==
    /\ text = <<"1", "]">>
    /\ ~WellFormed(StripSpace(text))
    /\ Returned
    /\ json = Number(<<0, 1>>)
    /\ cursor = 1

(***************************************************************************)
(* C6.  Duplicate keys are accepted, and a keyed lookup on a parsed Object *)
(* returns the value of the earliest field with that key, or panics with   *)
(* KeyNotFound when no field has it.                                       *)
(***************************************************************************)
C6_HasKey(fields, k) == \E i \in 1..Len(fields) : fields[i][1] = k

C6_Earliest(fields, k) ==
    fields[CHOOSE i \in 1..Len(fields) :
              fields[i][1] = k /\ \A j \in 1..(i - 1) : fields[j][1] # k][2]

C6_DuplicateText ==
    <<"{", Quote, "a", Quote, ":", "1", ",", Quote, "a", Quote, ":", "2", "}">>

C6_KeyedLookupFirstMatch ==
    /\ [](text = C6_DuplicateText /\ status # "new" =>
            json = Object(<<ObjectField(<<"a">>, Number(<<0, 1>>)),
                            ObjectField(<<"a">>, Number(<<0, 2>>))>>))
    /\ [][\A k \in Keys :
            (focus[1] = "Object" /\ IndexStr(k)) =>
                IF C6_HasKey(focus[2], k)
                THEN status' = "parsed" /\ focus' = C6_Earliest(focus[2], k)
                ELSE status' = "panicked" /\ panic' = KeyNotFound(k)]_vars

C6_Witness ==
    /\ text = C6_DuplicateText
    /\ status = "parsed"
    /\ json[1] = "Object"
    /\ focus = Number(<<0, 1>>)

(***************************************************************************)
(* C7.  An input that ends where a container's closing delimiter is due    *)
(* (right after the opening delimiter or after a complete last element or  *)
(* field) aborts with UnexpectedToken: expected that delimiter, got none.  *)
(***************************************************************************)
C7_Open == OpenStack(text, Len(text))

C7_MissingCloser ==
    (/\ status # "new"
     /\ C7_Open # <<>>
     /\ WellFormed(text \o Closers(C7_Open))) =>
        /\ Aborted
        /\ panic = UnexpectedToken(Closer(C7_Open[Len(C7_Open)]), NoChar)

C7_Witness ==
    /\ text = <<"{", Quote, "a", Quote, ":", "1">>
    /\ Aborted
    /\ panic = UnexpectedToken("}", NoChar)

(***************************************************************************)
(* C8.  A ',' is consumed only between two elements (fields): in what a    *)
(* returning parse consumed, every ',' outside the quoted texts follows    *)
(* the end of an element and precedes the start of the next, and there is  *)
(* exactly one per element after the first.  So "[,1]", "[1,]" and         *)
(* {"a":1,} abort.                                                         *)
(***************************************************************************)
C8_Commas == {i \in 1..cursor : Outside(text, i) /\ text[i] = ","}

\* The elements after the first, over all the containers of a value.
RECURSIVE C8_Separators(_)
RECURSIVE C8_SeparatorsIn(_, _, _)
C8_SeparatorsIn(items, i, isObject) ==
    IF i > Len(items) THEN 0
    ELSE (IF i > 1 THEN 1 ELSE 0)
         + C8_Separators(IF isObject THEN items[i][2] ELSE items[i])
         + C8_SeparatorsIn(items, i + 1, isObject)

C8_Separators(v) ==
    CASE v[1] = "List" -> C8_SeparatorsIn(v[2], 1, FALSE)
      [] v[1] = "Object" -> C8_SeparatorsIn(v[2], 1, TRUE)
      [] OTHER -> 0

C8_CommaOnlyBetweenElements ==
    /\ Returned =>
          /\ \A i \in C8_Commas :
                /\ Before(Consumed, i) \notin {"[", "{", ",", ":", NoChar}
                /\ After(Consumed, i) \notin {"]", "}", ",", ":", NoChar}
          /\ Cardinality(C8_Commas) = C8_Separators(json)
    /\ (/\ status # "new"
        /\ text \in {<<"[", ",", "1", "]">>, <<"[", "1", ",", "]">>,
                     <<"{", Quote, "a", Quote, ":", "1", ",", "}">>}) => Aborted

C8_Witness ==
    /\ text = <<"[", "1", ",", "]">>
    /\ Aborted
    /\ panic = UnexpectedToken("value", "]")

(***************************************************************************)
(* C10 as stated.  An input with a prefix that is a well-formed value,     *)
(* whatever follows it, parses to the value of that prefix, the rest left  *)
(* unconsumed.                                                             *)
(***************************************************************************)
C10_PrefixParsed(n) ==
    /\ Returned
    /\ cursor = n
    /\ Render(json) = Norm(SubSeq(text, 1, n))

C10_AnySuffixIgnored ==
    \A n \in 1..Len(text) :
        (status # "new" /\ WellFormed(SubSeq(text, 1, n))) => C10_PrefixParsed(n)

(***************************************************************************)
(* C10 amended.  The same, unless the prefix is a number and the character *)
(* after it is another digit (the number then runs on: "11" is 11, and     *)
(* "42949672950" aborts with InvalidNumber).                               *)
(***************************************************************************)
C10_SuffixIgnored ==
    \A n \in 1..Len(text) :
        (/\ status # "new"
         /\ WellFormed(SubSeq(text, 1, n))
         /\ ~(IsDigit(text[n]) /\ IsDigit(CharAt(text, n + 1)))) => C10_PrefixParsed(n)

C10_Witness ==
    /\ text = <<"[", "]", "{">>
    /\ Returned
    /\ json = List(<<>>)
    /\ cursor = 2

====
